---------------------------- MODULE Spec2Model ----------------------------
(***************************************************************************)
(* Model of the hass-swissweather integration:                             *)
(*   custom_components/swissweather/meteo.py        (MeteoClient)          *)
(*   custom_components/swissweather/coordinator.py  (poll cycle)           *)
(*   weather.py                                     (presentation entity)  *)
(*                                                                         *)
(* Time is counted in ticks of five minutes, so that a start instant that  *)
(* is not aligned with the ten-minute grid can be represented.  An         *)
(* optional value (Python's None) is the empty tuple, a present value v is *)
(* the one-element tuple <<v>>, and a tagged value (value, unit) is the    *)
(* two-element tuple <<value, unit>>.                                      *)
(***************************************************************************)
EXTENDS Integers, Sequences, FiniteSets, TLC

VARIABLES
    pc,                 \* position of the poll cycle / of get_forecast
    now,                \* the wall clock (datetime.now(UTC)), in ticks
    station_code,       \* coordinator._station_code (configuration)
    current_state,      \* local of _async_update_data: CurrentWeather or None
    stationFeed,        \* what the fetch of the station feed gave in this cycle
    forecastJson,       \* local of get_forecast: the parsed payload, or None
    currentState,       \* local of get_forecast: CurrentState or None
    dailyForecast,      \* local of get_forecast: list of Forecast
    i10m, i1h, i1hLowResolution, i3h,   \* cursors of the merge loop
    ts,                 \* current timeline instant of the merge loop
    forecast,           \* list the merge loop appends to
    visited,            \* history: instants the loop visited, with the clock read there
    hourlyForecast,     \* how _get_hourly_forecast ended, and what it returned
    data,               \* coordinator.data: the published result, or None
    outcome,            \* how the last poll cycle ended
    polls,              \* number of poll cycles finished
    readResult          \* how the last read of SwissWeather.forecast ended

vars == <<pc, now, station_code, stationFeed, current_state, forecastJson, currentState,
          dailyForecast, i10m, i1h, i1hLowResolution, i3h, ts, forecast,
          visited, hourlyForecast, data, outcome, polls, readResult>>

mergeVars == <<i10m, i1h, i1hLowResolution, i3h, ts, forecast, visited>>
pollVars == <<station_code, stationFeed, current_state, data, outcome, polls,
              readResult>>

---------------------------------------------------------------------------
(* Bounds of the model *)

\* longest effective length of an hourly or 3-hourly series of the graph section
MaxLen == 2
\* longest effective length of the 10-minute series
MaxLen10m == 3
\* number of poll cycles a behaviour runs
MaxPolls == 2
\* ticks the wall clock may advance during one poll cycle
MaxDrift == 1

(* Program constants, in ticks of five minutes *)
Step10m == 2
Step1h == 12
Step3h == 36
Hour == 12

---------------------------------------------------------------------------
(* Optional and tagged values *)

None == <<>>
Some(v) == <<v>>
Tagged(v, unit) == <<v, unit>>

Min2(a, b) == IF a <= b THEN a ELSE b
Max2(a, b) == IF a >= b THEN a ELSE b

\* a raw JSON scalar: absent/null, a string that is no number, a string of
\* digits, a number, or a value of a non-scalar type
Raw(kind, val) == [kind |-> kind, val |-> val]
RawAbsent == Raw("absent", 0)
RawText == Raw("text", 0)
RawList == Raw("list", 0)
RawInt(v) == Raw("int", v)
RawDigits(v) == Raw("digits", v)

\* to_int: None for None and for ValueError; int() of a list raises TypeError,
\* which to_int does not catch
to_int(raw) == IF raw.kind \in {"int", "digits"} THEN Some(raw.val) ELSE None
to_int_raises(raw) == raw.kind = "list"

\* to_float has the same shape
to_float(raw) == IF raw.kind \in {"int", "digits"} THEN Some(raw.val) ELSE None
to_float_raises(raw) == raw.kind = "list"

---------------------------------------------------------------------------
(* Condition Mapper *)

CONDITION_CLASSES ==
    [ n \in {"clear-night", "cloudy", "fog", "hail", "lightning", "lightning-rainy",
             "partlycloudy", "pouring", "rainy", "snowy", "snowy-rainy", "sunny",
             "windy", "windy-variant", "exceptional"} |->
        CASE n = "clear-night" -> {101}
          [] n = "cloudy" -> {5, 35, 105, 135}
          [] n = "fog" -> {27, 28, 127, 128}
          [] n = "lightning" -> {12, 112}
          [] n = "lightning-rainy" -> {13, 23, 24, 25, 32, 113, 123, 124, 125, 132}
          [] n = "partlycloudy" -> {2, 3, 4, 102, 103, 104}
          [] n = "pouring" -> {20, 120}
          [] n = "rainy" -> {6, 9, 14, 17, 29, 33, 106, 109, 114, 117, 129, 133}
          [] n = "snowy" -> {8, 11, 16, 19, 22, 30, 34, 108, 111, 116, 119, 122, 130, 134}
          [] n = "snowy-rainy" -> {7, 10, 15, 18, 21, 31, 107, 110, 115, 118, 121, 131}
          [] n = "sunny" -> {1, 26, 126}
          [] OTHER -> {} ]

\* ICON_TO_CONDITION_MAP.get(icon): icon is an optional integer
ICON_TO_CONDITION_MAP(icon) ==
    IF icon = None THEN None
    ELSE IF \E n \in DOMAIN CONDITION_CLASSES : icon[1] \in CONDITION_CLASSES[n]
         THEN Some(CHOOSE n \in DOMAIN CONDITION_CLASSES : icon[1] \in CONDITION_CLASSES[n])
         ELSE None

---------------------------------------------------------------------------
(* The graph section as _get_hourly_forecast reads it *)

graphJson == forecastJson[1].graph[1]

startTimestamp == to_int(graphJson.start)[1]
startLowResolutionTimestamp == to_int(graphJson.startLowResolution)[1]

TagList(list, unit) == [k \in 1..Len(list) |-> Tagged(list[k], unit)]

temperatureMax1hList == TagList(graphJson.temperatureMax1h, "C")
temperatureMean1hList == TagList(graphJson.temperatureMean1h, "C")
temperatureMin1hList == TagList(graphJson.temperatureMin1h, "C")
precipitation1hList == TagList(graphJson.precipitation1h, "mm")
preciptiationMax1hList == TagList(graphJson.precipitationMax1h, "mm")
preciptiationMin1hList == TagList(graphJson.precipitationMin1h, "mm")
windGustSpeed1hList == TagList(graphJson.gustSpeed1h, "km/h")
windSpeed1hList == TagList(graphJson.windSpeed1h, "km/h")
precipitation10mList == TagList(graphJson.precipitation10m, "mm")
precipitationMin10mList == TagList(graphJson.precipitationMin10m, "mm")
precipitationMax10mList == TagList(graphJson.precipitationMax10m, "mm")
weatherIcon3hList == graphJson.weatherIcon3h
windDirection3hlist == TagList(graphJson.windDirection3h, "deg")

Min3(a, b, c) == Min2(a, Min2(b, c))

\* start + step * value for value in range(0, n)
TimestampList(start, step, n) == [k \in 1..n |-> start + step * (k - 1)]

timestamp10mList ==
    TimestampList(startTimestamp, Step10m,
                  Min3(Len(precipitation10mList), Len(precipitationMin10mList),
                       Len(precipitationMax10mList)))
timestamp1hList ==
    TimestampList(startTimestamp, Step1h,
                  Min3(Len(temperatureMean1hList), Len(temperatureMax1hList),
                       Len(temperatureMin1hList)))
timestamp1hLowResolutionList ==
    TimestampList(startLowResolutionTimestamp, Step1h,
                  Min3(Len(precipitation1hList), Len(preciptiationMax1hList),
                       Min3(Len(preciptiationMin1hList), Len(windGustSpeed1hList),
                            Len(windSpeed1hList))))
timestamp3hList ==
    TimestampList(startTimestamp, Step3h,
                  Min2(Len(windDirection3hlist), Len(weatherIcon3hList)))

Last(list) == list[Len(list)]

lastTimestamp ==
    Max2(Max2(Last(timestamp10mList), Last(timestamp1hList)),
         Max2(Last(timestamp1hLowResolutionList), Last(timestamp3hList)))

---------------------------------------------------------------------------
(* The merge loop of _get_hourly_forecast, one iteration at a time *)

\* InitialTs, had the loop started at the later of the two start instants
InitialTsLatest == Max2(startTimestamp, startLowResolutionTimestamp)

\* ts = min(startTimestamp, startLowResolutionTimestamp)
InitialTs == Min2(startTimestamp, startLowResolutionTimestamp)

\* "i < len(list) and ts == list[i]"
Hit(i, list, t) == i < Len(list) /\ t = list[i + 1]

\* Advance, had the "i += 1" been left out
AdvanceNever(i, list, t) == i

\* the cursor after the "if ... : i += 1"
Advance(i, list, t) == IF Hit(i, list, t) THEN i + 1 ELSE i

\* Bound, had it looked one element past the cursor
BoundPastCursor(next, i, list) ==
    IF i + 1 < Len(list) THEN Min2(next, list[i + 2]) ELSE next

\* "if i < len(list): nextTimestamp = min(nextTimestamp, list[i])"
Bound(next, i, list) == IF i < Len(list) THEN Min2(next, list[i + 1]) ELSE next

\* Take, had the local been assigned whenever the cursor has an element left,
\* whether or not that element lies at ts
TakeAtCursor(hit, list, i, old) == IF i < Len(list) THEN list[i + 1] ELSE old

\* a local assigned in the body of a matching "if", else left as it was
Take(hit, list, i, old) == IF hit THEN list[i + 1] ELSE old

\* IsRecent, had the comparison been strict
IsRecentStrict(t, clock) == t > clock - Hour

\* "if ts >= (datetime.now(UTC) - timedelta(hours=1))"
IsRecent(t, clock) == t >= clock - Hour

\* Precipitation, had the 10-minute block run before the low-resolution block
PrecipitationLowLast(hitLow, listLow, iLow, hit10, list10, i10) ==
    Take(hitLow, listLow, iLow, Take(hit10, list10, i10, None))

\* the value of `precipitation` (and likewise of its min and max) after both
\* the low-resolution block and the 10-minute block have run
Precipitation(hitLow, listLow, iLow, hit10, list10, i10) ==
    Take(hit10, list10, i10, Take(hitLow, listLow, iLow, None))

\* Forecast(timestamp=..., icon=..., ...): the keyword construction of the loop
Forecast(timestamp, icon, condition, windSpeed, windDirection, windGustSpeed, temperatureMin, temperatureMean, temperatureMax, precipitationMin, precipitation, precipitationMax) ==
    [timestamp |-> timestamp, icon |-> icon, condition |-> condition,
     windSpeed |-> windSpeed, windDirection |-> windDirection,
     windGustSpeed |-> windGustSpeed, temperatureMin |-> temperatureMin,
     temperatureMean |-> temperatureMean, temperatureMax |-> temperatureMax,
     precipitationMin |-> precipitationMin, precipitation |-> precipitation,
     precipitationMax |-> precipitationMax]

\* the point the iteration at ts builds
Point ==
    LET hit3h == Hit(i3h, timestamp3hList, ts)
        hit1h == Hit(i1h, timestamp1hList, ts)
        hitLow == Hit(i1hLowResolution, timestamp1hLowResolutionList, ts)
        hit10m == Hit(i10m, timestamp10mList, ts)
        weatherIcon == IF hit3h THEN Some(weatherIcon3hList[i3h + 1]) ELSE None
    IN  Forecast(ts, weatherIcon, ICON_TO_CONDITION_MAP(weatherIcon),
                 Take(hitLow, windSpeed1hList, i1hLowResolution, None),
                 Take(hit3h, windDirection3hlist, i3h, None),
                 Take(hitLow, windGustSpeed1hList, i1hLowResolution, None),
                 Take(hit1h, temperatureMin1hList, i1h, None),
                 Take(hit1h, temperatureMean1hList, i1h, None),
                 Take(hit1h, temperatureMax1hList, i1h, None),
                 Precipitation(hitLow, preciptiationMin1hList, i1hLowResolution,
                               hit10m, precipitationMin10mList, i10m),
                 Precipitation(hitLow, precipitation1hList, i1hLowResolution,
                               hit10m, precipitation10mList, i10m),
                 Precipitation(hitLow, preciptiationMax1hList, i1hLowResolution,
                               hit10m, precipitationMax10mList, i10m))

\* nextTimestamp at the end of the iteration, from the advanced cursors
NextTimestamp(n3h, n1h, nLow, n10m) ==
    Bound(Bound(Bound(Bound(lastTimestamp + Step10m, n3h, timestamp3hList),
                      n1h, timestamp1hList),
                nLow, timestamp1hLowResolutionList),
          n10m, timestamp10mList)

\* what datetime.now(UTC) may return at this read: the clock does not go
\* back, and advances by at most MaxDrift ticks while the loop runs
ClockReads ==
    {c \in now..(now + 1) :
        c <= (IF visited = <<>> THEN now ELSE visited[1].clock) + MaxDrift}

\* how a call ended: "list" (returned the list), "None" (returned None),
\* "raise" (an exception left the function); "pending" while it runs
Ended(kind, list) == [kind |-> kind, list |-> list]
Pending == Ended("pending", <<>>)

\* what the fetch of the CSV feed gives: its rows, a RequestException (the
\* generator logs it and ends without a row), or another exception; "none"
\* when the cycle does not fetch it
Feed(kind, rows) == [kind |-> kind, rows |-> rows]
NoFeed == Feed("none", <<>>)

\* how a read of SwissWeather.forecast ended, for the hourly or the daily entity
Read(hourly, kind, list) == [hourly |-> hourly, kind |-> kind, list |-> list]
NotRead == Read(FALSE, "pending", <<>>)

\* an empty list among those whose [0] and [-1] the log lines read
SomeSeriesEmpty ==
    \/ Len(timestamp10mList) = 0
    \/ Len(timestamp1hLowResolutionList) = 0
    \/ Len(timestamp1hList) = 0
    \/ Len(timestamp3hList) = 0

\* _get_hourly_forecast up to the loop: the early returns, the lists, the log
\* lines that index every timestamp list
HourlyBegin ==
    /\ pc = "hourly"
    /\ IF forecastJson[1].graph = None
         THEN /\ hourlyForecast' = Ended("None", <<>>)
              /\ pc' = "hourly_done"
              /\ UNCHANGED mergeVars
       ELSE IF to_int_raises(graphJson.start)
         THEN /\ hourlyForecast' = Ended("raise", <<>>)
              /\ pc' = "hourly_done"
              /\ UNCHANGED mergeVars
       ELSE IF to_int(graphJson.start) = None
         THEN /\ hourlyForecast' = Ended("None", <<>>)
              /\ pc' = "hourly_done"
              /\ UNCHANGED mergeVars
       ELSE IF to_int_raises(graphJson.startLowResolution)
         THEN /\ hourlyForecast' = Ended("raise", <<>>)
              /\ pc' = "hourly_done"
              /\ UNCHANGED mergeVars
       ELSE IF to_int(graphJson.startLowResolution) = None
         THEN /\ hourlyForecast' = Ended("None", <<>>)
              /\ pc' = "hourly_done"
              /\ UNCHANGED mergeVars
       ELSE IF SomeSeriesEmpty
         THEN /\ hourlyForecast' = Ended("raise", <<>>)
              /\ pc' = "hourly_done"
              /\ UNCHANGED mergeVars
       ELSE /\ hourlyForecast' = Pending
            /\ pc' = "loop"
            /\ ts' = InitialTs
            /\ i10m' = 0 /\ i1h' = 0 /\ i1hLowResolution' = 0 /\ i3h' = 0
            /\ forecast' = <<>>
            /\ visited' = <<>>
    /\ UNCHANGED <<now, forecastJson, currentState, dailyForecast, pollVars>>

\* one iteration of "while ts <= lastTimestamp"
MergeStep ==
    /\ pc = "loop"
    /\ ts <= lastTimestamp
    /\ \E clock \in ClockReads :
         LET n3h == Advance(i3h, timestamp3hList, ts)
             n1h == Advance(i1h, timestamp1hList, ts)
             nLow == Advance(i1hLowResolution, timestamp1hLowResolutionList, ts)
             n10m == Advance(i10m, timestamp10mList, ts)
         IN  /\ i3h' = n3h
             /\ i1h' = n1h
             /\ i1hLowResolution' = nLow
             /\ i10m' = n10m
             /\ forecast' = IF IsRecent(ts, clock) THEN Append(forecast, Point)
                                                   ELSE forecast
             /\ ts' = NextTimestamp(n3h, n1h, nLow, n10m)
             /\ now' = clock
             /\ visited' = Append(visited, [ts |-> ts, clock |-> clock])
    /\ UNCHANGED <<pc, hourlyForecast, forecastJson, currentState, dailyForecast,
                   pollVars>>

\* the loop exit: the log line that reads forecast[0] and forecast[-1], and
\* the return
HourlyEnd ==
    /\ pc = "loop"
    /\ ~(ts <= lastTimestamp)
    /\ hourlyForecast' = IF Len(forecast) = 0 THEN Ended("raise", <<>>)
                                              ELSE Ended("list", forecast)
    /\ pc' = "hourly_done"
    /\ UNCHANGED <<now, forecastJson, currentState, dailyForecast, mergeVars,
                   pollVars>>

---------------------------------------------------------------------------
(* Inputs of the merger *)

\* the raw values of a field: element k carries base + k - 1, so every
\* element of every field is told apart from every other
Values(base, n) == [k \in 1..n |-> base + k - 1]

\* icon codes of the 3-hourly series: a mapped code, a night code, an
\* unmapped code, in turn
IconCodes == <<5, 101, 999>>
Icons(n) == [k \in 1..n |-> IconCodes[((k - 1) % Len(IconCodes)) + 1]]

\* a graph section: each series has an effective length n and one field that
\* is x elements longer than the others
Graph(start, startLow, n10m, n1h, nLow, n3h, x) ==
    [start |-> start,
     startLowResolution |-> startLow,
     precipitation10m |-> Values(1, n10m + x),
     precipitationMin10m |-> Values(10, n10m),
     precipitationMax10m |-> Values(20, n10m),
     precipitation1h |-> Values(30, nLow),
     precipitationMax1h |-> Values(40, nLow),
     precipitationMin1h |-> Values(50, nLow),
     gustSpeed1h |-> Values(60, nLow),
     windSpeed1h |-> Values(70, nLow + x),
     temperatureMax1h |-> Values(80, n1h + x),
     temperatureMean1h |-> Values(90, n1h),
     temperatureMin1h |-> Values(100, n1h),
     weatherIcon3h |-> Icons(n3h),
     windDirection3h |-> Values(110, n3h + x),
     sunrise |-> None,
     sunset |-> None]

Payload(currentWeather, daily, graph) ==
    [currentWeather |-> currentWeather, forecast |-> daily, graph |-> graph]

\* the primary start instant and the low-resolution start instants: five
\* minutes before it, equal to it, ten minutes after it
StartEpochs == {1}
LowResolutionEpochs == {0, 1, 3}

Lens == 0..MaxLen
Extra == {0, 1}

WellFormedGraphs ==
    { Graph(RawInt(s), RawInt(l), n10m, n1h, nLow, n3h, x) :
        s \in StartEpochs, l \in LowResolutionEpochs,
        n10m \in 0..MaxLen10m, n1h \in Lens, nLow \in Lens, n3h \in Lens,
        x \in Extra }

\* graph sections whose start instants make the merger return early
BadStarts == {RawAbsent, RawText, RawList}
UnmergeableGraphs ==
    { Graph(s, l, 1, 1, 1, 1, 0) :
        s \in BadStarts \cup {RawInt(1)}, l \in BadStarts }
    \cup { Graph(s, RawInt(1), 1, 1, 1, 1, 0) : s \in BadStarts }

MergePayloads ==
    { Payload(None, None, Some(g)) : g \in WellFormedGraphs \cup UnmergeableGraphs }
    \cup { Payload(None, None, None) }

\* clock readings at the start of a merge: the cutoff (one hour earlier) lies
\* on the earliest instant there can be (and, once the clock has advanced, on
\* the primary start), on the second 10-minute instant, and after every
\* instant
AllPast == 1 + Step3h * MaxLen + Step10m * MaxLen10m + Hour + Step1h
NowValues == {12, 15, AllPast}

InitMerge ==
    /\ pc = "hourly"
    /\ now \in NowValues
    /\ forecastJson \in {Some(p) : p \in MergePayloads}
    /\ station_code = None
    /\ stationFeed = NoFeed
    /\ current_state = None
    /\ currentState = None
    /\ dailyForecast = <<>>
    /\ i10m = 0 /\ i1h = 0 /\ i1hLowResolution = 0 /\ i3h = 0
    /\ ts = 0
    /\ forecast = <<>>
    /\ visited = <<>>
    /\ hourlyForecast = Pending
    /\ data = None
    /\ outcome = "none"
    /\ polls = 0
    /\ readResult = NotRead

NextMerge == HourlyBegin \/ MergeStep \/ HourlyEnd

\* _get_hourly_forecast on every input of MergePayloads
SpecMerge == InitMerge /\ [][NextMerge]_vars

---------------------------------------------------------------------------
(* Station feed: get_current_weather_for_station *)

\* str.casefold on the station codes of the model
casefold(s) ==
    IF s \in {"SMA", "Sma", "sma"} THEN "sma"
    ELSE IF s \in {"BER", "ber"} THEN "ber"
    ELSE IF s \in {"LUG", "lug"} THEN "lug"
    ELSE s

\* one row of the CSV feed, by column name
Row(station, date, temperature) ==
    [station |-> station, Date |-> date, tre200s0 |-> temperature,
     rre150z0 |-> RawInt(0), sre000z0 |-> RawInt(10), gre000z0 |-> RawInt(300),
     ure200s0 |-> RawInt(55), tde200s0 |-> RawInt(9), dkl010z0 |-> RawInt(180),
     fu3010z0 |-> RawInt(12), fu3010z1 |-> RawInt(25), prestas0 |-> RawInt(950),
     pp0qnhs0 |-> RawInt(1013)]

CurrentWeather(station, date, airTemperature, precipitation, sunshine, globalRadiation, relativeHumidity, dewPoint, windDirection, windSpeed, gustPeak1s, pressureStationLevel, pressureSeaLevel, pressureSeaLevelAtStandardAtmosphere) ==
    [station |-> station, date |-> date, airTemperature |-> airTemperature,
     precipitation |-> precipitation, sunshine |-> sunshine,
     globalRadiation |-> globalRadiation, relativeHumidity |-> relativeHumidity,
     dewPoint |-> dewPoint, windDirection |-> windDirection,
     windSpeed |-> windSpeed, gustPeak1s |-> gustPeak1s,
     pressureStationLevel |-> pressureStationLevel,
     pressureSeaLevel |-> pressureSeaLevel,
     pressureSeaLevelAtStandardAtmosphere |-> pressureSeaLevelAtStandardAtmosphere]

\* datetime.strptime raises ValueError on a text that is no timestamp
strptime_raises(raw) == raw.kind \in {"text", "list"}
strptime(raw) == Some(raw.val)

_get_current_data_for_row(csv_row) ==
    CurrentWeather(
        Some(csv_row.station),
        IF csv_row.Date.kind = "absent" THEN None ELSE strptime(csv_row.Date),
        Tagged(to_float(csv_row.tre200s0), "C"),
        Tagged(to_float(csv_row.rre150z0), "mm"),
        Tagged(to_float(csv_row.sre000z0), "min"),
        Tagged(to_float(csv_row.gre000z0), "W/m2"),
        Tagged(to_float(csv_row.ure200s0), "%"),
        Tagged(to_float(csv_row.tde200s0), "C"),
        Tagged(to_float(csv_row.dkl010z0), "deg"),
        Tagged(to_float(csv_row.fu3010z0), "km/h"),
        Tagged(to_float(csv_row.fu3010z1), "km/h"),
        Tagged(to_float(csv_row.prestas0), "hPa"),
        Tagged(to_float(csv_row.prestas0), "hPa"),
        Tagged(to_float(csv_row.pp0qnhs0), "hPa"))

\* the rows _get_csv_dictionary_for_url yields
_get_csv_dictionary_for_url(feed) == IF feed.kind = "rows" THEN feed.rows ELSE <<>>

\* next((row for row in ... if row[...].casefold() == station.casefold()), None)
_get_current_weather_line_for_station(feed, station) ==
    LET rows == _get_csv_dictionary_for_url(feed)
        hits == {k \in 1..Len(rows) : casefold(rows[k].station) = casefold(station)}
    IN  IF hits = {} THEN None
        ELSE Some(rows[CHOOSE k \in hits : \A j \in hits : k <= j])

\* get_current_weather_for_station as the coordinator sees it, the
\* coordinator's "except Exception" included: the observation, or None
StationLookup(feed, station) ==
    IF feed.kind = "error" THEN None
    ELSE LET data_ == _get_current_weather_line_for_station(feed, station)
         IN  IF data_ = None THEN None
             ELSE IF strptime_raises(data_[1].Date) THEN None
             ELSE Some(_get_current_data_for_row(data_[1]))

StationFeeds ==
    { Feed("rows", <<Row("BER", RawInt(13), RawDigits(7)),
                     Row("SMA", RawInt(13), RawDigits(21))>>),
      Feed("rows", <<Row("SMA", RawAbsent, RawText)>>),
      Feed("rows", <<Row("SMA", RawText, RawDigits(21))>>),
      Feed("RequestException", <<>>),
      Feed("error", <<>>) }

StationCodes == {None, Some("SMA"), Some("sma"), Some("LUG")}

---------------------------------------------------------------------------
(* Forecast feed: get_forecast *)

\* what requests.get(...).json() gives: the payload; a RequestException
\* (caught: None); a body that is no JSON, which raises a RequestException
\* subclass in current versions of requests (caught: None) and a plain
\* ValueError in older ones (not caught)
Fetched(kind, json) == [kind |-> kind, json |-> json]

_get_current_state(json) ==
    IF json.currentWeather = None THEN None
    ELSE LET currentIcon == to_int(json.currentWeather[1].icon)
         IN  Some([currentTemperature |->
                       Tagged(to_float(json.currentWeather[1].temperature), "C"),
                   currentIcon |-> currentIcon,
                   currentCondition |-> ICON_TO_CONDITION_MAP(currentIcon)])

\* one "forecast.append(Forecast(timestamp, icon, condition, temperatureMax,
\* temperatureMin, precipitation))": the six arguments are positional
DailyPoint(dailyJson) ==
    LET icon == to_int(dailyJson.iconDay)
    IN  Forecast(IF dailyJson.dayDate.kind = "absent" THEN None
                                                      ELSE strptime(dailyJson.dayDate),
                 icon, ICON_TO_CONDITION_MAP(icon),
                 Tagged(to_float(dailyJson.temperatureMax), "C"),
                 Tagged(to_float(dailyJson.temperatureMin), "C"),
                 Tagged(to_float(dailyJson.precipitation), "mm"),
                 None, None, None, None, None, None)

_get_daily_forecast(json) ==
    IF json.forecast = None THEN <<>>
    ELSE [k \in 1..Len(json.forecast[1]) |-> DailyPoint(json.forecast[1][k])]

_get_daily_forecast_raises(json) ==
    /\ json.forecast # None
    /\ \E k \in 1..Len(json.forecast[1]) : strptime_raises(json.forecast[1][k].dayDate)

WeatherForecast(current, daily, hourly, sunrise, sunset) ==
    [current |-> current, dailyForecast |-> daily, hourlyForecast |-> hourly,
     sunrise |-> sunrise, sunset |-> sunset]

\* forecastJson.get("graph", {}).get(key, None), each epoch made an instant
SunMarks(json, key) ==
    IF json.graph = None THEN None
    ELSE IF key = "sunrise" THEN json.graph[1].sunrise ELSE json.graph[1].sunset

Day(dayDate, iconDay) ==
    [dayDate |-> dayDate, iconDay |-> iconDay, temperatureMax |-> RawInt(24),
     temperatureMin |-> RawInt(11), precipitation |-> RawInt(3)]

CurrentWeatherJson == [icon |-> RawInt(5), temperature |-> RawInt(18)]

WithSun(g) == [g EXCEPT !.sunrise = Some(<<70>>), !.sunset = Some(<<170>>)]

\* the graph sections a poll may receive: mergeable ones (with a tie of the
\* 10-minute and the low-resolution series, and without), one with an empty
\* series, ones whose start instants are missing or unparseable, and none
PollGraphs ==
    { Some(WithSun(Graph(RawInt(1), RawInt(1), 1, 1, 1, 1, 0))),
      Some(WithSun(Graph(RawInt(1), RawInt(0), 2, 1, 1, 1, 0))),
      Some(WithSun(Graph(RawInt(1), RawInt(1), 2, 0, 0, 1, 0))),
      Some(WithSun(Graph(RawAbsent, RawInt(1), 1, 1, 1, 1, 0))),
      Some(WithSun(Graph(RawInt(1), RawText, 1, 1, 1, 1, 0))),
      None }

PollDailies ==
    { None,
      Some(<<Day(RawInt(0), RawInt(1)), Day(RawInt(288), RawAbsent)>>),
      Some(<<Day(RawText, RawInt(1))>>) }

PollPayloads ==
    { Payload(cw, d, g) : cw \in {None, Some(CurrentWeatherJson)},
                          d \in PollDailies, g \in PollGraphs }

Fetches ==
    { Fetched("json", j) : j \in PollPayloads }
    \cup { Fetched("RequestException", None), Fetched("no JSON", None) }

---------------------------------------------------------------------------
(* The poll cycle: SwissWeatherDataCoordinator._async_update_data *)

\* lines 32-43: the station lookup, with its "except Exception"
UpdateBegin ==
    /\ pc = "idle"
    /\ polls < MaxPolls
    /\ IF station_code = None
         THEN /\ stationFeed' = NoFeed
              /\ current_state' = None
         ELSE \E feed \in StationFeeds :
                /\ stationFeed' = feed
                /\ current_state' = StationLookup(feed, station_code[1])
    /\ pc' = "get_forecast"
    /\ readResult' = NotRead
    \* the locals of the calls this cycle makes start afresh
    /\ forecastJson' = None
    /\ currentState' = None
    /\ dailyForecast' = <<>>
    /\ i10m' = 0 /\ i1h' = 0 /\ i1hLowResolution' = 0 /\ i3h' = 0
    /\ ts' = 0
    /\ forecast' = <<>>
    /\ visited' = <<>>
    /\ hourlyForecast' = Pending
    /\ UNCHANGED <<now, station_code, data, outcome, polls>>

\* the update raised UpdateFailed: the coordinator keeps its data
UpdateFailed ==
    /\ pc' = "idle"
    /\ outcome' = "UpdateFailed"
    /\ polls' = polls + 1
    /\ UNCHANGED <<data, current_state>>

\* the update returned (current_state, current_forecast)
UpdateReturns(state, current_forecast) ==
    /\ pc' = "idle"
    /\ outcome' = "published"
    /\ polls' = polls + 1
    /\ current_state' = state
    /\ data' = Some(<<state, current_forecast>>)

\* the CurrentWeather the coordinator makes of the forecast feed's current state
FallbackState(current) ==
    Some(CurrentWeather(None, Some(now), current.currentTemperature,
                        <<None, None>>, <<None, None>>, <<None, None>>,
                        <<None, None>>, <<None, None>>, <<None, None>>,
                        <<None, None>>, <<None, None>>, <<None, None>>,
                        <<None, None>>, <<None, None>>))

\* Finish, had the fallback not been guarded by "if current_state is None"
FinishUnguarded(current_forecast) ==
    IF current_forecast = None
      THEN IF current_state # None THEN UpdateReturns(current_state, current_forecast)
                                   ELSE UpdateFailed
    ELSE IF current_forecast[1].current = None
      THEN UpdateFailed
    ELSE UpdateReturns(FallbackState(current_forecast[1].current[1]), current_forecast)

\* lines 49-56 of the coordinator, given what get_forecast returned
Finish(current_forecast) ==
    IF current_state # None
      THEN UpdateReturns(current_state, current_forecast)
    ELSE IF current_forecast = None \/ current_forecast[1].current = None
      THEN UpdateFailed
    ELSE UpdateReturns(FallbackState(current_forecast[1].current[1]), current_forecast)

\* get_forecast up to the call of _get_hourly_forecast: the fetch, the
\* current state and the daily forecast
GetForecastBegin ==
    /\ pc = "get_forecast"
    /\ \E f \in Fetches :
         IF f.kind = "json"
           THEN /\ forecastJson' = Some(f.json)
                /\ IF _get_daily_forecast_raises(f.json)
                     THEN /\ UpdateFailed
                          /\ UNCHANGED <<currentState, dailyForecast>>
                     ELSE /\ currentState' = _get_current_state(f.json)
                          /\ dailyForecast' = _get_daily_forecast(f.json)
                          /\ pc' = "hourly"
                          /\ UNCHANGED <<current_state, data, outcome, polls>>
         ELSE IF f.kind = "RequestException"
           THEN /\ forecastJson' = None
                /\ Finish(None)
                /\ UNCHANGED <<currentState, dailyForecast>>
         ELSE /\ forecastJson' = None
              /\ \/ Finish(None)
                 \/ UpdateFailed
              /\ UNCHANGED <<currentState, dailyForecast>>
    /\ UNCHANGED <<now, station_code, stationFeed, mergeVars, hourlyForecast,
                   readResult>>

\* get_forecast after _get_hourly_forecast (the sunrise and sunset marks, the
\* collection), and the rest of the poll cycle
GetForecastEnd ==
    /\ pc = "hourly_done"
    /\ IF hourlyForecast.kind = "raise"
         THEN UpdateFailed
         ELSE Finish(Some(WeatherForecast(
                  currentState, dailyForecast,
                  IF hourlyForecast.kind = "None" THEN None
                                                  ELSE Some(hourlyForecast.list),
                  SunMarks(forecastJson[1], "sunrise"),
                  SunMarks(forecastJson[1], "sunset"))))
    /\ UNCHANGED <<now, station_code, stationFeed, forecastJson, currentState, dailyForecast,
                   mergeVars, hourlyForecast, readResult>>

---------------------------------------------------------------------------
(* The presentation entity: SwissWeather.forecast *)

\* the _current_forecast property
_current_forecast == IF data = None THEN None ELSE data[1][2]

\* homeassistant's Forecast entry, by keyword
Entry(condition, datetime, native_precipitation, native_temperature, native_templow, native_wind_speed, wind_bearing) ==
    [condition |-> condition, datetime |-> datetime,
     native_precipitation |-> native_precipitation,
     native_temperature |-> native_temperature, native_templow |-> native_templow,
     native_wind_speed |-> native_wind_speed, wind_bearing |-> wind_bearing]

\* subscripting None raises TypeError
meteo_forecast_to_forecast_raises(hourly, f) ==
    \/ f.precipitation = None
    \/ f.temperatureMin = None
    \/ IF hourly
         THEN f.temperatureMean = None \/ f.windSpeed = None \/ f.windDirection = None
         ELSE f.temperatureMax = None

meteo_forecast_to_forecast(hourly, f) ==
    Entry(f.condition, f.timestamp, f.precipitation[1],
          IF hourly THEN f.temperatureMean[1] ELSE f.temperatureMax[1],
          f.temperatureMin[1],
          IF hourly THEN Some(f.windSpeed[1]) ELSE None,
          IF hourly THEN Some(f.windDirection[1]) ELSE None)

\* filter(lambda forecast: forecast.timestamp >= now, list)
RECURSIVE FilterFrom(_, _)
FilterFrom(list, clock) ==
    IF list = <<>> THEN <<>>
    ELSE IF Head(list).timestamp >= clock
           THEN <<Head(list)>> \o FilterFrom(Tail(list), clock)
           ELSE FilterFrom(Tail(list), clock)

\* the forecast property of the hourly (hourly = TRUE) or daily entity
EntityForecast(hourly) ==
    IF _current_forecast = None THEN Read(hourly, "None", <<>>)
    ELSE LET wf == _current_forecast[1]
             forecast_data ==
                 IF hourly THEN FilterFrom(wf.hourlyForecast[1], now)
                           ELSE wf.dailyForecast
         IN  IF hourly /\ (wf.hourlyForecast = None \/ wf.hourlyForecast[1] = <<>>)
               THEN Read(hourly, "raise", <<>>)
             ELSE IF \E k \in 1..Len(forecast_data) :
                        meteo_forecast_to_forecast_raises(hourly, forecast_data[k])
               THEN Read(hourly, "raise", <<>>)
             ELSE Read(hourly, "list",
                       [k \in 1..Len(forecast_data) |->
                            meteo_forecast_to_forecast(hourly, forecast_data[k])])

ReadForecast ==
    /\ pc = "idle"
    /\ \E hourly \in BOOLEAN : readResult' = EntityForecast(hourly)
    /\ UNCHANGED <<pc, now, station_code, stationFeed, current_state, forecastJson,
                   currentState, dailyForecast, mergeVars, hourlyForecast, data,
                   outcome, polls>>

---------------------------------------------------------------------------
(* The integration: poll cycles and reads of the entities *)

\* the clock when the integration starts: the one-hour cutoff lies on the
\* primary start instant of the graphs, or ten minutes after it
PollNowValues == {13, 15}

Init ==
    /\ pc = "idle"
    /\ now \in PollNowValues
    /\ station_code \in StationCodes
    /\ stationFeed = NoFeed
    /\ current_state = None
    /\ forecastJson = None
    /\ currentState = None
    /\ dailyForecast = <<>>
    /\ i10m = 0 /\ i1h = 0 /\ i1hLowResolution = 0 /\ i3h = 0
    /\ ts = 0
    /\ forecast = <<>>
    /\ visited = <<>>
    /\ hourlyForecast = Pending
    /\ data = None
    /\ outcome = "none"
    /\ polls = 0
    /\ readResult = NotRead

Next ==
    \/ UpdateBegin
    \/ GetForecastBegin
    \/ HourlyBegin
    \/ MergeStep
    \/ HourlyEnd
    \/ GetForecastEnd
    \/ ReadForecast

Spec == Init /\ [][Next]_vars

---------------------------------------------------------------------------
(* The entities' reads of what one poll cycle publishes *)

\* graph sections whose primary series start at the clock of the poll, so
\* that the entities still show their points; the low-resolution series
\* starts with them or an hour before
EntityGraphs ==
    { WithSun(Graph(RawInt(13), RawInt(l), n10m, n1h, nLow, n3h, 0)) :
        l \in {1, 13}, n10m \in 1..MaxLen10m,
        n1h \in 1..MaxLen, nLow \in 1..MaxLen, n3h \in 1..MaxLen }

\* the daily arrays whose dayDate values parse
EntityDailies == {d \in PollDailies : ~_get_daily_forecast_raises(Payload(None, d, None))}

EntityPayloads ==
    { Payload(Some(CurrentWeatherJson), d, Some(g)) :
        d \in EntityDailies, g \in EntityGraphs }

\* a station feed with a row of the configured station
EntityFeed == Feed("rows", <<Row("SMA", RawInt(13), RawDigits(21))>>)

\* a poll cycle at the call of _get_hourly_forecast: the station lookup is
\* done, the payload is fetched, current state and daily forecast are made
InitEntity ==
    /\ pc = "hourly"
    /\ now \in PollNowValues
    /\ station_code \in {None, Some("SMA")}
    /\ stationFeed = (IF station_code = None THEN NoFeed ELSE EntityFeed)
    /\ current_state = (IF station_code = None THEN None
                        ELSE StationLookup(EntityFeed, station_code[1]))
    /\ forecastJson \in {Some(p) : p \in EntityPayloads}
    /\ currentState = _get_current_state(forecastJson[1])
    /\ dailyForecast = _get_daily_forecast(forecastJson[1])
    /\ i10m = 0 /\ i1h = 0 /\ i1hLowResolution = 0 /\ i3h = 0
    /\ ts = 0
    /\ forecast = <<>>
    /\ visited = <<>>
    /\ hourlyForecast = Pending
    /\ data = None
    /\ outcome = "none"
    /\ polls = 0
    /\ readResult = NotRead

NextEntity ==
    \/ HourlyBegin
    \/ MergeStep
    \/ HourlyEnd
    \/ GetForecastEnd
    \/ ReadForecast

SpecEntity == InitEntity /\ [][NextEntity]_vars

---------------------------------------------------------------------------
(* Properties of the merger *)

\* the instants at which a series has an element
InstantsOf(list) == {list[k] : k \in 1..Len(list)}

\* the index of the element a series has at instant t (one at most)
IndexAt(list, t) == CHOOSE k \in 1..Len(list) : list[k] = t

Ascending(list) ==
    \A k \in 1..(Len(list) - 1) : list[k].timestamp < list[k + 1].timestamp

\* the loop has been entered (both start instants parsed, no series empty)
LoopEntered == pc = "loop" \/ (pc = "hourly_done" /\ visited # <<>>)

\* C1: the sequence the merger builds and returns is strictly ascending in
\* timestamp, so no instant appears twice in it.
C1_StrictlyAscending ==
    /\ Ascending(forecast)
    /\ hourlyForecast.kind = "list" => Ascending(hourlyForecast.list)

\* a returned sequence of four points or more, merged from a low-resolution
\* series that starts before the primary start instant
C1_Witness ==
    /\ hourlyForecast.kind = "list"
    /\ Len(hourlyForecast.list) >= 4
    /\ startLowResolutionTimestamp < startTimestamp

\* the fields of a point that a series owns are those of its element at the
\* point's instant, or absent when it has none there
FieldsFrom(p, names, lists, timestamps) ==
    \A f \in 1..Len(names) :
        IF p.timestamp \in InstantsOf(timestamps)
          THEN p[names[f]] = lists[f][IndexAt(timestamps, p.timestamp)]
          ELSE p[names[f]] = None

\* precipitation value/min/max have two owners: the low-resolution hourly
\* series and the 10-minute series
PrecipitationFrom(p) ==
    LET at10m == p.timestamp \in InstantsOf(timestamp10mList)
        atLow == p.timestamp \in InstantsOf(timestamp1hLowResolutionList)
        k10m == IndexAt(timestamp10mList, p.timestamp)
        kLow == IndexAt(timestamp1hLowResolutionList, p.timestamp)
        Owned(v, list10m, listLow) ==
            \/ at10m /\ v = list10m[k10m]
            \/ atLow /\ v = listLow[kLow]
            \/ ~at10m /\ ~atLow /\ v = None
    IN  /\ Owned(p.precipitation, precipitation10mList, precipitation1hList)
        /\ Owned(p.precipitationMin, precipitationMin10mList, preciptiationMin1hList)
        /\ Owned(p.precipitationMax, precipitationMax10mList, preciptiationMax1hList)

NotFabricated(p) ==
    /\ p.icon = IF p.timestamp \in InstantsOf(timestamp3hList)
                  THEN Some(weatherIcon3hList[IndexAt(timestamp3hList, p.timestamp)])
                  ELSE None
    /\ FieldsFrom(p, <<"windDirection">>, <<windDirection3hlist>>, timestamp3hList)
    /\ FieldsFrom(p, <<"temperatureMin", "temperatureMean", "temperatureMax">>,
                  <<temperatureMin1hList, temperatureMean1hList, temperatureMax1hList>>,
                  timestamp1hList)
    /\ FieldsFrom(p, <<"windSpeed", "windGustSpeed">>,
                  <<windSpeed1hList, windGustSpeed1hList>>,
                  timestamp1hLowResolutionList)
    /\ PrecipitationFrom(p)

\* C2: no fabrication.  In every point the merger emits at instant ts, a
\* field is set only if a series that owns the field has an element at ts,
\* its value is the value of such an element, and every field none of whose
\* owners has an element at ts is absent.
C2_NoFabrication ==
    LoopEntered => \A k \in 1..Len(forecast) : NotFabricated(forecast[k])

\* a returned sequence with a point that carries precipitation and no icon,
\* no temperature and no wind, and a point that carries an icon
C2_Witness ==
    /\ hourlyForecast.kind = "list"
    /\ \E k \in 1..Len(hourlyForecast.list) :
         LET p == hourlyForecast.list[k]
         IN  /\ p.precipitation # None
             /\ p.icon = None /\ p.temperatureMean = None /\ p.windSpeed = None
    /\ \E k \in 1..Len(hourlyForecast.list) : hourlyForecast.list[k].icon # None

AllInstants ==
    InstantsOf(timestamp10mList) \cup InstantsOf(timestamp1hList)
    \cup InstantsOf(timestamp1hLowResolutionList) \cup InstantsOf(timestamp3hList)

VisitedInstants == {visited[k].ts : k \in 1..Len(visited)}

\* the elements before a cursor are exactly those that lie before ts
ConsumedUpTo(i, list) == \A k \in 1..Len(list) : (k <= i) <=> (list[k] < ts)

\* C3: leaving the cutoff aside, the instants the loop visits are exactly the
\* union of the four series' timestamps.  While the loop runs every visited
\* instant is the timestamp of a series element, no instant is visited twice
\* and each cursor has passed exactly the elements that lie before ts; at
\* loop exit each cursor equals its series' effective length and the visited
\* instants are the whole union.
C3_VisitsUnion ==
    LoopEntered =>
        /\ VisitedInstants \subseteq AllInstants
        /\ \A k \in 1..(Len(visited) - 1) : visited[k].ts < visited[k + 1].ts
        /\ ConsumedUpTo(i10m, timestamp10mList)
        /\ ConsumedUpTo(i1h, timestamp1hList)
        /\ ConsumedUpTo(i1hLowResolution, timestamp1hLowResolutionList)
        /\ ConsumedUpTo(i3h, timestamp3hList)
        /\ pc = "hourly_done" =>
              /\ VisitedInstants = AllInstants
              /\ i10m = Len(timestamp10mList)
              /\ i1h = Len(timestamp1hList)
              /\ i1hLowResolution = Len(timestamp1hLowResolutionList)
              /\ i3h = Len(timestamp3hList)

\* the loop has ended after visiting six instants or more, of series that
\* are not aligned with one another
C3_Witness ==
    /\ pc = "hourly_done"
    /\ Len(visited) >= 6
    /\ startLowResolutionTimestamp < startTimestamp
    /\ i10m >= 2 /\ i1h >= 2 /\ i1hLowResolution >= 2 /\ i3h >= 2

\* the series that have an element at instant t
SeriesAt(t) ==
    (IF t \in InstantsOf(timestamp10mList) THEN {"10m"} ELSE {})
    \cup (IF t \in InstantsOf(timestamp1hList) THEN {"1h"} ELSE {})
    \cup (IF t \in InstantsOf(timestamp1hLowResolutionList)
            THEN {"1hLowResolution"} ELSE {})
    \cup (IF t \in InstantsOf(timestamp3hList) THEN {"3h"} ELSE {})

\* what each of the series `at` contributes to point p, precipitation left
\* aside
ContributesOwn(p, at) ==
    /\ "3h" \in at =>
          /\ p.icon = Some(weatherIcon3hList[IndexAt(timestamp3hList, p.timestamp)])
          /\ FieldsFrom(p, <<"windDirection">>, <<windDirection3hlist>>,
                        timestamp3hList)
    /\ "1h" \in at =>
          FieldsFrom(p, <<"temperatureMin", "temperatureMean", "temperatureMax">>,
                     <<temperatureMin1hList, temperatureMean1hList,
                       temperatureMax1hList>>, timestamp1hList)
    /\ "1hLowResolution" \in at =>
          FieldsFrom(p, <<"windSpeed", "windGustSpeed">>,
                     <<windSpeed1hList, windGustSpeed1hList>>,
                     timestamp1hLowResolutionList)

PrecipitationOf10m(p) ==
    FieldsFrom(p, <<"precipitation", "precipitationMin", "precipitationMax">>,
               <<precipitation10mList, precipitationMin10mList, precipitationMax10mList>>,
               timestamp10mList)

PrecipitationOfLowResolution(p) ==
    FieldsFrom(p, <<"precipitation", "precipitationMin", "precipitationMax">>,
               <<precipitation1hList, preciptiationMin1hList, preciptiationMax1hList>>,
               timestamp1hLowResolutionList)

\* C4 as stated: at a tie a single point is emitted and every series with an
\* element there contributes its fields, hourly series A its precipitation
\* value/min/max also when the 10-minute series has an element there.
C4_TiesOriginal ==
    LoopEntered =>
        /\ Ascending(forecast)
        /\ \A k \in 1..Len(forecast) :
             LET p == forecast[k]
                 at == SeriesAt(p.timestamp)
             IN  /\ ContributesOwn(p, at)
                 /\ "10m" \in at => PrecipitationOf10m(p)
                 /\ "1hLowResolution" \in at => PrecipitationOfLowResolution(p)

\* C4, amended: at a tie a single point is emitted and every series with an
\* element there contributes its fields, except that the precipitation
\* value/min/max are the 10-minute series' when it has an element there, and
\* hourly series A's only when it has not.
C4_TiesAmended ==
    LoopEntered =>
        /\ Ascending(forecast)
        /\ \A k \in 1..Len(forecast) :
             LET p == forecast[k]
                 at == SeriesAt(p.timestamp)
             IN  /\ ContributesOwn(p, at)
                 /\ "10m" \in at => PrecipitationOf10m(p)
                 /\ ("1hLowResolution" \in at /\ "10m" \notin at) =>
                        PrecipitationOfLowResolution(p)

\* a returned sequence with a point where all four series tie, and a point
\* where hourly series A has an element and the 10-minute series has none
C4_Witness ==
    /\ hourlyForecast.kind = "list"
    /\ \E k \in 1..Len(hourlyForecast.list) :
         Cardinality(SeriesAt(hourlyForecast.list[k].timestamp)) = 4
    /\ \E k \in 1..Len(hourlyForecast.list) :
         /\ "1hLowResolution" \in SeriesAt(hourlyForecast.list[k].timestamp)
         /\ "10m" \notin SeriesAt(hourlyForecast.list[k].timestamp)

PointsAt(t) == {j \in 1..Len(forecast) : forecast[j].timestamp = t}

\* C5: the output has no point older than one hour before merge time, and it
\* has every merged instant at or after that cutoff; a point exactly at the
\* cutoff is retained.  The merge reads the clock when it visits an instant:
\* a visited instant is in the output exactly if it is not older than one
\* hour before that reading.  Hence no point is older than one hour before
\* the first reading, and every visited instant that is not older than one
\* hour before the last reading is in the output.
C5_Cutoff ==
    LoopEntered =>
        /\ \A k \in 1..Len(visited) :
             (visited[k].ts >= visited[k].clock - Hour) <=> PointsAt(visited[k].ts) # {}
        /\ \A j \in 1..Len(forecast) :
             /\ forecast[j].timestamp \in VisitedInstants
             /\ forecast[j].timestamp >= visited[1].clock - Hour
        /\ \A k \in 1..Len(visited) :
             visited[k].ts >= now - Hour => PointsAt(visited[k].ts) # {}

\* a returned sequence whose first point lies exactly at the cutoff, from a
\* merge that dropped an older instant
C5_Witness ==
    /\ hourlyForecast.kind = "list"
    /\ \E k \in 1..Len(visited) :
         /\ visited[k].ts = visited[k].clock - Hour
         /\ hourlyForecast.list[1].timestamp = visited[k].ts
    /\ \E k \in 1..Len(visited) : visited[k].ts < visited[k].clock - Hour

\* both start instants are present and parse
StartsPresent ==
    /\ forecastJson # None
    /\ forecastJson[1].graph # None
    /\ to_int(graphJson.start) # None
    /\ to_int(graphJson.startLowResolution) # None

\* C6 as stated: with both start instants present, a series of zero
\* effective length and a series that is not empty, the merge still succeeds
\* and returns the merge of the remaining series.
C6_EmptySeriesMerges ==
    (pc = "hourly_done" /\ StartsPresent /\ SomeSeriesEmpty /\ AllInstants # {}) =>
        /\ hourlyForecast.kind = "list"
        /\ \A k \in 1..Len(hourlyForecast.list) :
               NotFabricated(hourlyForecast.list[k])

\* elements the cursors have not passed yet
Remaining ==
    (Len(timestamp10mList) - i10m) + (Len(timestamp1hList) - i1h)
    + (Len(timestamp1hLowResolutionList) - i1hLowResolution)
    + (Len(timestamp3hList) - i3h)

\* C8: the merge loop terminates.  No cursor goes back and every iteration
\* advances one at least, so the number of elements left strictly decreases;
\* the loop goes on exactly while elements are left, so it exits (ts is
\* greater than lastTimestamp) once the last element is consumed.
C8_Terminates ==
    /\ [](pc = "loop" => (Remaining >= 0 /\ (Remaining = 0 <=> ts > lastTimestamp)))
    /\ [][(pc = "loop" /\ pc' = "loop") =>
            /\ Remaining' < Remaining
            /\ i10m' >= i10m /\ i1h' >= i1h
            /\ i1hLowResolution' >= i1hLowResolution /\ i3h' >= i3h]_vars

\* the loop has exited after six iterations or more, every element consumed
C8_Witness ==
    /\ pc = "hourly_done"
    /\ Len(visited) >= 6
    /\ Remaining = 0
    /\ ts > lastTimestamp

---------------------------------------------------------------------------
(* Properties of the poll cycle *)

\* the payload was fetched and its graph section lacks a start instant, or
\* has one that is no number
StartsUnmergeable ==
    /\ forecastJson # None
    /\ forecastJson[1].graph # None
    /\ \/ graphJson.start.kind \in {"absent", "text"}
       \/ graphJson.startLowResolution.kind \in {"absent", "text"}
    /\ graphJson.start.kind # "list"
    /\ graphJson.startLowResolution.kind # "list"

\* C7 as stated: when `start` or `startLowResolution` is missing or
\* unparseable the merger yields no sequence and that is no hard failure:
\* get_forecast returns the collection with its current state, daily
\* sequence and sunrise/sunset marks, the poll cycle (given a current state
\* from either feed) publishes it, and a read of the hourly entity's
\* forecast does not fail.
C7_AbsentSequenceTolerated ==
    /\ (pc = "hourly_done" /\ StartsUnmergeable) => hourlyForecast.kind = "None"
    /\ (pc = "idle" /\ hourlyForecast.kind = "None" /\ StartsUnmergeable
            /\ (current_state # None \/ currentState # None)) =>
          /\ outcome = "published"
          /\ data = Some(<<current_state,
                           Some(WeatherForecast(currentState, dailyForecast, None,
                                                graphJson.sunrise, graphJson.sunset))>>)
          /\ (readResult.kind # "pending" /\ readResult.hourly) =>
                 readResult.kind # "raise"

\* C9 as stated: a poll cycle whose forecast fetch failed (get_forecast had
\* no payload) ends in UpdateFailed and leaves the published result as it
\* was, whether or not the station lookup found an observation.
C9_FailedFetchNeverPublishes ==
    [][(pc = "get_forecast" /\ pc' = "idle" /\ forecastJson' = None) =>
          (outcome' = "UpdateFailed" /\ data' = data)]_vars

\* station codes that are equal when case is ignored
SameCode(a, b) ==
    \/ a = b
    \/ \E class \in {{"SMA", "Sma", "sma"}, {"BER", "ber"}, {"LUG", "lug"}} :
         a \in class /\ b \in class

\* the rows of this cycle's station feed whose code is the configured one
MatchingRows ==
    IF station_code = None \/ stationFeed.kind # "rows" THEN {}
    ELSE {k \in 1..Len(stationFeed.rows) :
              SameCode(stationFeed.rows[k].station, station_code[1])}

\* C10: when the station lookup yields nothing (no station code configured,
\* no row whose code matches case-insensitively, the fetch raised) that does
\* not fail the cycle: once get_forecast has returned a collection made from
\* a payload with a currentWeather section, the cycle publishes a current
\* state with the temperature of currentWeather.temperature, the assembly
\* time as timestamp and every other quantity absent.  When the lookup finds
\* a row (whose date parses) the cycle holds the observation built from the
\* first matching row, and publishes that one unchanged.
C10_StationFallback ==
    /\ [](pc # "idle" =>
            /\ (MatchingRows = {}) => current_state = None
            /\ \A k \in MatchingRows :
                 ((\A j \in MatchingRows : k <= j)
                     /\ ~strptime_raises(stationFeed.rows[k].Date)) =>
                   /\ current_state # None
                   /\ current_state[1].station = Some(stationFeed.rows[k].station)
                   /\ current_state[1].airTemperature =
                          Tagged(to_float(stationFeed.rows[k].tre200s0), "C"))
    /\ [][(pc = "hourly_done" /\ pc' = "idle" /\ hourlyForecast.kind # "raise") =>
            IF current_state # None
              THEN outcome' = "published" /\ data'[1][1] = current_state
            ELSE IF forecastJson[1].currentWeather # None
              THEN /\ outcome' = "published"
                   /\ data'[1][1] =
                        Some(CurrentWeather(
                            None, Some(now),
                            Tagged(to_float(forecastJson[1].currentWeather[1].temperature),
                                   "C"),
                            <<None, None>>, <<None, None>>, <<None, None>>,
                            <<None, None>>, <<None, None>>, <<None, None>>,
                            <<None, None>>, <<None, None>>, <<None, None>>,
                            <<None, None>>, <<None, None>>))
            ELSE TRUE]_vars

\* a cycle of a coordinator configured with a station code no row of the
\* feed carries has published the fallback state, after a cycle before it
C10_Witness ==
    /\ pc = "idle"
    /\ polls = MaxPolls
    /\ outcome = "published"
    /\ station_code = Some("LUG")
    /\ stationFeed.kind = "rows"
    /\ data[1][1][1].station = None
    /\ data[1][1][1].airTemperature = Tagged(Some(18), "C")
    /\ data[1][1][1].date = Some(now)
    /\ data[1][1][1].windSpeed = <<None, None>>

---------------------------------------------------------------------------
(* Properties of the assembly and of the entities *)

\* a payload was fetched and parsed in the cycle, and a top-level section of
\* it is missing
SectionMissing ==
    /\ forecastJson # None
    /\ \/ forecastJson[1].currentWeather = None
       \/ forecastJson[1].forecast = None
       \/ forecastJson[1].graph = None

\* the sections that are there are assembled without an exception
PresentSectionsAssemble ==
    /\ ~_get_daily_forecast_raises(forecastJson[1])
    /\ forecastJson[1].graph = None \/ hourlyForecast.kind \in {"list", "None"}

\* C11 as stated: with any subset of currentWeather, forecast and graph
\* missing from a fetched and parsed payload the assembly succeeds, each
\* missing section gives an absent or empty result for that section only,
\* and the poll cycle publishes the collection, also when currentWeather is
\* missing and the station lookup found nothing.
C11_MissingSectionsPublish ==
    (pc = "idle" /\ SectionMissing /\ PresentSectionsAssemble) =>
        /\ outcome = "published"
        /\ data # None
        /\ LET json == forecastJson[1]
               published == data[1][2][1]
           IN  /\ (json.currentWeather = None) <=> (published.current = None)
               /\ (json.forecast = None) => published.dailyForecast = <<>>
               /\ (json.forecast # None) =>
                      Len(published.dailyForecast) = Len(json.forecast[1])
               /\ (json.graph = None) <=> (published.sunrise = None)
               /\ (json.graph = None) <=> (published.sunset = None)
               /\ (json.graph = None) => published.hourlyForecast = None

\* the payload of the cycle has a daily array, every dayDate of which parses
DailyAssembled ==
    /\ forecastJson # None
    /\ forecastJson[1].forecast # None
    /\ ~_get_daily_forecast_raises(forecastJson[1])

\* C12 as stated: _get_daily_forecast emits one point per element of the
\* daily array, in provider order; the point's temperatureMax,
\* temperatureMin and precipitation hold the tagged values of the element's
\* temperatureMax, temperatureMin and precipitation and no other field
\* receives them; an element without iconDay gives a point with absent
\* condition.
C12_DailyFields ==
    DailyAssembled =>
        LET days == forecastJson[1].forecast[1]
        IN  /\ Len(dailyForecast) = Len(days)
            /\ \A k \in 1..Len(days) :
                 LET p == dailyForecast[k]
                     d == days[k]
                 IN  /\ p.timestamp = (IF d.dayDate.kind = "absent" THEN None
                                                                    ELSE strptime(d.dayDate))
                     /\ p.icon = to_int(d.iconDay)
                     /\ (d.iconDay.kind = "absent") => p.condition = None
                     /\ p.temperatureMax = Tagged(to_float(d.temperatureMax), "C")
                     /\ p.temperatureMin = Tagged(to_float(d.temperatureMin), "C")
                     /\ p.precipitation = Tagged(to_float(d.precipitation), "mm")
                     /\ p.windSpeed = None
                     /\ p.windDirection = None
                     /\ p.windGustSpeed = None
                     /\ p.temperatureMean = None
                     /\ p.precipitationMin = None
                     /\ p.precipitationMax = None

\* the points of the published collection the read is to show: the hourly
\* ones at or after the clock of the read, or the daily ones
ShownPoints ==
    IF readResult.hourly
      THEN FilterFrom(_current_forecast[1].hourlyForecast[1], now)
      ELSE _current_forecast[1].dailyForecast

\* C13 as stated: a read of the forecast of the hourly or of the daily
\* entity, made of a published collection (one that has an hourly sequence,
\* for the hourly entity), returns a list and does not fail: it has one entry
\* for each point shown, whichever fields of the point are absent.
C13_EntityReadsSucceed ==
    (/\ readResult.kind # "pending"
     /\ _current_forecast # None
     /\ readResult.hourly => _current_forecast[1].hourlyForecast # None) =>
        /\ readResult.kind = "list"
        /\ Len(readResult.list) = Len(ShownPoints)
        /\ \A k \in 1..Len(ShownPoints) :
               /\ readResult.list[k].datetime = ShownPoints[k].timestamp
               /\ readResult.list[k].condition = ShownPoints[k].condition

\* the loop has run and every instant it visited was strictly older than
\* the cutoff of its iteration
AllVisitedOlder ==
    /\ visited # <<>>
    /\ \A k \in 1..Len(visited) : ~IsRecent(visited[k].ts, visited[k].clock)

\* C14 as stated: when every merged instant is strictly older than the
\* one-hour cutoff the merger returns an empty sequence, and does not fail.
C14_AllPastReturnsEmpty ==
    (pc = "hourly_done" /\ AllVisitedOlder) =>
        /\ hourlyForecast.kind = "list"
        /\ hourlyForecast.list = <<>>

=============================================================================
